---------------------------- MODULE Spec2Model ----------------------------
(***************************************************************************)
(* thin-http (src/src/lib.rs): a wrapper over the WinINet client library.  *)
(*                                                                         *)
(*   wide_string::WideString   &str -> NUL-terminated UTF-16 buffer        *)
(*   wininet::Internet         owns a session handle, closes it on drop    *)
(*   wininet::Response         owns a request handle, closes it on drop    *)
(*   wininet::Bytes            iterator over the body, one chunk buffered  *)
(*                                                                         *)
(* The platform library is the environment: every call into it is a        *)
(* nondeterministic choice among the results its contract allows.          *)
(***************************************************************************)
EXTENDS Integers, Sequences, FiniteSets

(***************************************************************************)
(* Bounds of the model.                                                    *)
(***************************************************************************)
\* Capacity of the iterator's chunk buffer.  The source sets BUFFER_SIZE to
\* 1000 (lib.rs:146); the model keeps the name and the role and scales the
\* value, so that bodies of 0, 1 and 2 full chunks (and one byte more) are
\* enumerated exhaustively.
BUFFER_SIZE == 2
\* Session wrappers and Response wrappers that may be created in one run.
MaxSessions == 1
MaxResponses == 1
\* Longest text handed to the wide-string adapter.
MaxStrLen == 3

\* Longest response body: two full chunks and one byte.
MaxBody == 2 * BUFFER_SIZE + 1

(***************************************************************************)
(* Program constants.                                                      *)
(***************************************************************************)
\* The null handle (std::ptr::null, HINTERNET::is_null).
NULL == 0

\* Option<T>: None is the empty sequence, Some(x) a one-element sequence.
None == <<>>
Some(x) == <<x>>

SessIds == 1..MaxSessions
RespIds == 1..MaxResponses
Handles == 0..(MaxSessions + MaxResponses)

\* Byte values the platform may deliver in a body (u8; 0 is also the value
\* the buffer is initialised with).
BodyBytes == {0, 7}
RECURSIVE SeqsUpTo(_, _)
SeqsUpTo(S, n) ==
    IF n = 0 THEN {<<>>}
    ELSE LET shorter == SeqsUpTo(S, n - 1)
         IN  shorter \cup {Append(q, x) : q \in {p \in shorter : Len(p) = n - 1}, x \in S}
\* Every body up to MaxBody bytes.
Bodies == SeqsUpTo(BodyBytes, MaxBody)
\* Bodies used where the whole life cycle is explored.
LifeBodies == {<<>>, <<7, 0>>}
\* Status codes the platform may hold for a completed request.
StatusCodes == {200, 404}

Min(a, b) == IF a <= b THEN a ELSE b

VARIABLES
    sess,        \* [SessIds -> [st, h]]          the Internet wrappers
    resp,        \* [RespIds -> [st, h, parent]]  the Response wrappers
    rd,          \* [RespIds -> [st, data, index, size]]  the Bytes iterator borrowing a Response
    net,         \* [RespIds -> [body, pos, code]] the platform's state of each request
    closeCount,  \* [Handles -> Nat]  InternetCloseHandle calls issued per handle
    nextH,       \* the next handle value the platform hands out
    gh,          \* [out, failed, noneSeen, cleanEnd, nones, first0, tick]  history of the iterator under observation
    ev,          \* the last operation: what was called, what the platform answered, what was returned
    wsIn,        \* wide-string adapter: the text converted
    wsOut,       \* wide-string adapter: the buffer produced
    wsDone       \* wide-string adapter: conversion has run

vars == <<sess, resp, rd, net, closeCount, nextH, gh, ev, wsIn, wsOut, wsDone>>
wsVars == <<wsIn, wsOut, wsDone>>


(***************************************************************************)
(* wide_string::WideString (lib.rs:11-30).  A &str is a sequence of        *)
(* Unicode scalar values; encode_wide yields its UTF-16 code units and     *)
(* From<&str> chains one 0 after them.                                     *)
(***************************************************************************)
\* Scalar values used as characters: NUL, 'a', the last BMP value, the first
\* and the last supplementary value.
Chars == {0, 97, 65535, 65536, 1114111}
Strs == SeqsUpTo(Chars, MaxStrLen)

\* The code units of one scalar value: itself below 0x10000, otherwise a
\* high and a low surrogate.
EncodeUnit(c) ==
    IF c < 65536 THEN <<c>>
    ELSE LET v == c - 65536
         IN  <<55296 + (v \div 1024), 56320 + (v % 1024)>>

\* OsStr::new(s).encode_wide()
RECURSIVE EncodeWide(_)
EncodeWide(s) ==
    IF s = <<>> THEN <<>> ELSE EncodeUnit(Head(s)) \o EncodeWide(Tail(s))

\* A conversion that forgets the terminator.
WideStringFrom_noTerminator(s) == EncodeWide(s)

\* WideString::from(s): .encode_wide().chain(Some(0)).collect()
WideStringFrom(s) == EncodeWide(s) \o <<0>>

\* The standard UTF-16 decoding of a sequence of code units (a surrogate
\* pair is one scalar value; an unpaired surrogate decodes to -1).
IsHigh(u) == u >= 55296 /\ u <= 56319
IsLow(u) == u >= 56320 /\ u <= 57343
RECURSIVE Utf16Decode(_)
Utf16Decode(w) ==
    IF w = <<>> THEN <<>>
    ELSE IF IsHigh(w[1]) /\ Len(w) >= 2 /\ IsLow(w[2])
         THEN <<65536 + (w[1] - 55296) * 1024 + (w[2] - 56320)>>
                  \o Utf16Decode(SubSeq(w, 3, Len(w)))
    ELSE IF IsHigh(w[1]) \/ IsLow(w[1])
         THEN <<-1>> \o Utf16Decode(Tail(w))
    ELSE <<w[1]>> \o Utf16Decode(Tail(w))

\* Number of zero elements at the end of a sequence.
RECURSIVE TrailingZeros(_)
TrailingZeros(w) ==
    IF w = <<>> \/ w[Len(w)] # 0 THEN 0
    ELSE 1 + TrailingZeros(SubSeq(w, 1, Len(w) - 1))

Front(w) == SubSeq(w, 1, Len(w) - 1)

(***************************************************************************)
(* Lifetimes of the wide-string buffers in Internet::open and              *)
(* Internet::get.  Each function is the sequence of its allocations, drops *)
(* and the one platform call, in evaluation order.  `agent` is a let       *)
(* binding (dropped at the end of the function); the url temporary is an   *)
(* argument of the call (dropped at the end of the enclosing statement);   *)
(* the proxy and headers temporaries are created in the body of a match    *)
(* arm, which is a temporary scope of its own: they are dropped when the   *)
(* arm has produced its pointer, before the call.                          *)
(***************************************************************************)
Alloc(b) == [e |-> "alloc", b |-> {b}]
Free(b) == [e |-> "free", b |-> {b}]
Call(ptrs) == [e |-> "call", b |-> ptrs]

\* Internet::open(agent, proxy)
OpenEvents(hasProxy) ==
    <<Alloc("agent")>>
    \o (IF hasProxy THEN <<Alloc("proxy"), Free("proxy")>> ELSE <<>>)
    \o <<Call({"agent"} \cup (IF hasProxy THEN {"proxy"} ELSE {}))>>
    \o <<Free("agent")>>

\* Internet::get(url, headers)
GetEvents(hasHeaders) ==
    <<Alloc("url")>>
    \o (IF hasHeaders THEN <<Alloc("headers"), Free("headers")>> ELSE <<>>)
    \o <<Call({"url"} \cup (IF hasHeaders THEN {"headers"} ELSE {}))>>
    \o <<Free("url")>>

\* The buffers allocated and not yet dropped after the first n events.
RECURSIVE LiveAfter(_, _)
LiveAfter(evs, n) ==
    IF n = 0 THEN {}
    ELSE LET before == LiveAfter(evs, n - 1)
         IN  CASE evs[n].e = "alloc" -> before \cup evs[n].b
               [] evs[n].e = "free" -> before \ evs[n].b
               [] OTHER -> before

\* The pointers handed to the platform call whose buffer is already dropped.
Dangling(evs) ==
    LET i == CHOOSE k \in 1..Len(evs) : evs[k].e = "call"
    IN  evs[i].b \ LiveAfter(evs, i - 1)

(***************************************************************************)
(* The platform library (WinINet), as the wrapper sees it.                 *)
(***************************************************************************)
\* InternetCloseHandle(h): one more close call issued on h.
InternetCloseHandle(cc, h) == [cc EXCEPT ![h] = @ + 1]

\* InternetOpenW / InternetOpenUrlW: a null handle, or a handle never handed
\* out before.
NewHandles == {NULL, nextH}

\* InternetReadFile(handle, data, BUFFER_SIZE, &read_size) with `rem` bytes
\* of the body not yet delivered: failure (result 0, nothing delivered),
\* or success with 1..BUFFER_SIZE of the remaining bytes, or, at the end of
\* the body, success with 0 bytes.
ReadOutcomes(rem) ==
    {[result |-> 0, n |-> 0]}
    \cup (IF rem > 0
          THEN {[result |-> 1, n |-> k] : k \in 1..Min(BUFFER_SIZE, rem)}
          ELSE {[result |-> 1, n |-> 0]})

\* HttpQueryInfoW(handle, STATUS_CODE | FLAG_NUMBER, &status_code, ..):
\* failure writes nothing, success writes the request's status code.
QueryOutcomes(code) == {[result |-> 0, n |-> 0], [result |-> 1, n |-> code]}

(***************************************************************************)
(* wininet::Internet, wininet::Response: the wrapper code.                 *)
(***************************************************************************)
\* A wrapper built without the null check.
Wrap_noCheck(h) == Some(h)

\* if handle.is_null() { None } else { Some(Wrapper(handle)) }
Wrap(h) == IF h = NULL THEN None ELSE Some(h)

\* impl Drop for Internet
Internet_drop(cc, h) == InternetCloseHandle(cc, h)

\* A drop that forgets to close.
Response_drop_leak(cc, h) == cc

\* impl Drop for Response
Response_drop(cc, h) == InternetCloseHandle(cc, h)

\* A status that returns the query's BOOL instead of the value written.
Response_status_flag(q) == q.result

\* Response::status: status_code starts at 0, the query may overwrite it,
\* its BOOL result is dropped.
Response_status(q) ==
    LET status_code == 0
    IN  IF q.result # 0 THEN q.n ELSE status_code

(***************************************************************************)
(* wininet::Bytes                                                          *)
(***************************************************************************)
ZeroData == [i \in 0..(BUFFER_SIZE - 1) |-> 0]
NoBytes == [st |-> "none", data |-> ZeroData, index |-> 0, size |-> 0]
\* Bytes::new
Bytes_new == [st |-> "live", data |-> ZeroData, index |-> 0, size |-> 0]

\* if self.index >= self.size
NeedRefill(index, size) == index >= size

\* An end test that reads the platform's BOOL the wrong way round.
IsEnd_negated(result, read_size) == (result = 0) /\ (read_size = 0)
\* An end test that looks at the byte count alone.
IsEnd_sizeOnly(result, read_size) == read_size = 0
\* An end test that looks at the platform's BOOL alone.
IsEnd_resultOnly(result, read_size) == result # 0

\* (result != 0) && (read_size == 0)
IsEnd(result, read_size) == (result # 0) /\ (read_size = 0)

\* Bytes::next on iterator state b.  o is the platform's answer to the
\* InternetReadFile call and chunk the bytes it delivers, used only when
\* the buffer is exhausted; otherwise result and read_size keep their
\* initial 0.  index is a DWORD; it is reset to 0 by every refill and a
\* refill happens as soon as it reaches size <= BUFFER_SIZE, so the
\* increment never wraps.
Bytes_next(b, o, chunk) ==
    LET refill == NeedRefill(b.index, b.size)
        result == IF refill THEN o.result ELSE 0
        read_size == IF refill THEN o.n ELSE 0
        b1 == IF refill
              THEN [b EXCEPT !.data = [i \in DOMAIN b.data |->
                                          IF i < read_size THEN chunk[i + 1] ELSE b.data[i]],
                             !.size = read_size,
                             !.index = 0]
              ELSE b
        return_value == IF IsEnd(result, read_size)
                        THEN None
                        ELSE Some(b1.data[b1.index])
    IN  [b |-> [b1 EXCEPT !.index = b1.index + 1],
         ret |-> return_value,
         refill |-> refill,
         result |-> result,
         n |-> read_size]

(***************************************************************************)
(* State                                                                   *)
(***************************************************************************)
NoSess == [st |-> "unborn", h |-> NULL]
NoResp == [st |-> "unborn", h |-> NULL, parent |-> 0]
NoReq == [body |-> <<>>, pos |-> 0, code |-> 0]
\* History of one iterator, kept where a run of next calls is observed:
\*   out       the items it produced up to its first None, recorded while
\*             no read has failed
\*   failed    some InternetReadFile call it issued has failed
\*   noneSeen  it has returned None
\*   cleanEnd  it has returned None and every read since has reported
\*             success with 0 bytes
\*   nones     how many times it has returned None (counted up to 2)
\*   first0    first byte of the last chunk delivered to it, 0 if none was
\*   tick      parity of the number of next calls made on it (every call is
\*             a step, also one that leaves the iterator as it was)
NoHist == [out |-> <<>>, failed |-> FALSE, noneSeen |-> FALSE,
           cleanEnd |-> FALSE, nones |-> 0, first0 |-> 0, tick |-> 0]

\* The record of one operation: ret is the returned value in a one-element
\* sequence (<<>> for None or no value); result, n are what the platform
\* call reported; h the handle it returned; refill whether next called
\* InternetReadFile; dangling the dropped buffers it was handed; garbled
\* whether the platform read something else than the text from them.
Ev(op, id, ret) ==
    [op |-> op, id |-> id, ret |-> ret, result |-> 0, n |-> 0, h |-> NULL,
     refill |-> FALSE, dangling |-> {}, garbled |-> FALSE]

Init ==
    /\ sess = [s \in SessIds |-> NoSess]
    /\ resp = [r \in RespIds |-> NoResp]
    /\ rd = [r \in RespIds |-> NoBytes]
    /\ net = [r \in RespIds |-> NoReq]
    /\ closeCount = [h \in Handles |-> 0]
    /\ nextH = 1
    /\ gh = NoHist
    /\ ev = Ev("init", 0, None)
    /\ wsIn = <<>>
    /\ wsOut = <<>>
    /\ wsDone = FALSE

\* The lowest wrapper slot not yet used.
FreeSlot(w, ids) == CHOOSE i \in ids : w[i].st = "unborn" /\ \A j \in ids : j < i => w[j].st # "unborn"
HasFreeSlot(w, ids) == \E i \in ids : w[i].st = "unborn"

\* What the platform reads through the pointers it is handed: a dropped
\* buffer may still hold the text or anything else.
Garblings(dangling) == IF dangling = {} THEN {FALSE} ELSE BOOLEAN

\* Internet::open(agent, proxy)
Open(hasProxy) ==
    /\ HasFreeSlot(sess, SessIds)
    /\ \E h \in NewHandles, g \in Garblings(Dangling(OpenEvents(hasProxy))) :
          LET s == FreeSlot(sess, SessIds)
              ret == Wrap(h)
          IN  /\ sess' = IF ret = None THEN sess
                         ELSE [sess EXCEPT ![s] = [st |-> "live", h |-> ret[1]]]
              /\ nextH' = IF h = NULL THEN nextH ELSE nextH + 1
              /\ ev' = [Ev("open", IF ret = None THEN 0 ELSE s, ret) EXCEPT
                           !.h = h,
                           !.dangling = Dangling(OpenEvents(hasProxy)),
                           !.garbled = g]
    /\ UNCHANGED <<resp, rd, net, closeCount, gh, wsVars>>

\* Internet::get(&self, url, headers) on session s
Get(s, hasHeaders) ==
    /\ sess[s].st = "live"
    /\ HasFreeSlot(resp, RespIds)
    /\ \E h \in NewHandles, g \in Garblings(Dangling(GetEvents(hasHeaders))),
          body \in LifeBodies, code \in StatusCodes :
          LET r == FreeSlot(resp, RespIds)
              ret == Wrap(h)
          IN  /\ resp' = IF ret = None THEN resp
                         ELSE [resp EXCEPT ![r] = [st |-> "live", h |-> ret[1], parent |-> s]]
              /\ net' = IF ret = None THEN net
                        ELSE [net EXCEPT ![r] = [body |-> body, pos |-> 0, code |-> code]]
              /\ nextH' = IF h = NULL THEN nextH ELSE nextH + 1
              /\ ev' = [Ev("get", IF ret = None THEN 0 ELSE r, ret) EXCEPT
                           !.h = h,
                           !.dangling = Dangling(GetEvents(hasHeaders)),
                           !.garbled = g]
    /\ UNCHANGED <<sess, rd, closeCount, gh, wsVars>>

\* Response::status(&self) on response r
Status(r) ==
    /\ resp[r].st = "live"
    /\ \E q \in QueryOutcomes(net[r].code) :
          ev' = [Ev("status", r, Some(Response_status(q))) EXCEPT
                    !.result = q.result, !.n = q.n, !.h = resp[r].h]
    /\ UNCHANGED <<sess, resp, rd, net, closeCount, nextH, gh, wsVars>>

\* Response::as_bytes(&self) on response r
AsBytes(r) ==
    /\ resp[r].st = "live"
    /\ rd[r].st = "none"
    /\ rd' = [rd EXCEPT ![r] = Bytes_new]
    /\ ev' = Ev("as_bytes", r, None)
    /\ UNCHANGED <<sess, resp, net, closeCount, nextH, gh, wsVars>>

\* The platform's answers to the read that a next call on the iterator of
\* response r may issue; when the buffer is not exhausted no call is made.
NextOutcomes(r) ==
    IF NeedRefill(rd[r].index, rd[r].size)
    THEN ReadOutcomes(Len(net[r].body) - net[r].pos)
    ELSE {[result |-> 0, n |-> 0]}

\* The bytes the platform delivers for answer o.
Chunk(r, o) == SubSeq(net[r].body, net[r].pos + 1, net[r].pos + o.n)

\* Bytes::next(&mut self) on the iterator of response r, the platform
\* answering o: the iterator, the platform's read position and the record
\* of the call.
NextCall(r, o) ==
    LET x == Bytes_next(rd[r], o, Chunk(r, o))
    IN  /\ rd' = [rd EXCEPT ![r] = x.b]
        /\ net' = [net EXCEPT ![r].pos = @ + (IF x.refill THEN o.n ELSE 0)]
        /\ ev' = [Ev("next", r, x.ret) EXCEPT
                     !.result = x.result, !.n = x.n, !.refill = x.refill,
                     !.h = resp[r].h]
        /\ UNCHANGED <<sess, resp, closeCount, nextH, wsVars>>

\* The history of the iterator after that call.
Hist(g, r, o) ==
    LET x == Bytes_next(rd[r], o, Chunk(r, o))
        failed == g.failed \/ (x.refill /\ o.result = 0)
    IN  [g EXCEPT
           !.failed = failed,
           !.out = IF ~failed /\ ~g.noneSeen /\ x.ret # None
                   THEN g.out \o x.ret ELSE g.out,
           !.noneSeen = g.noneSeen \/ x.ret = None,
           !.cleanEnd = \/ g.cleanEnd /\ (x.refill => o.result # 0 /\ o.n = 0)
                        \/ ~g.cleanEnd /\ x.ret = None,
           !.nones = IF x.ret = None THEN Min(g.nones + 1, 2) ELSE g.nones,
           !.first0 = IF x.refill /\ o.n > 0 THEN Chunk(r, o)[1] ELSE g.first0,
           !.tick = 1 - g.tick]

\* Bytes::next in the life cycle of the wrappers.
BytesNext(r) ==
    /\ rd[r].st = "live"
    /\ \E o \in NextOutcomes(r) : NextCall(r, o)
    /\ UNCHANGED gh

\* The iterator goes out of scope (Bytes has no Drop: nothing is called).
DropBytes(r) ==
    /\ rd[r].st = "live"
    /\ rd' = [rd EXCEPT ![r] = NoBytes]
    /\ ev' = Ev("dropBytes", r, None)
    /\ UNCHANGED <<sess, resp, net, closeCount, nextH, gh, wsVars>>

\* Response r goes out of scope; the borrow in Bytes<'a> has ended.
DropResponse(r) ==
    /\ resp[r].st = "live"
    /\ rd[r].st = "none"
    /\ closeCount' = Response_drop(closeCount, resp[r].h)
    /\ resp' = [resp EXCEPT ![r].st = "dropped"]
    /\ net' = [net EXCEPT ![r] = NoReq]
    /\ ev' = [Ev("dropResponse", r, None) EXCEPT !.h = resp[r].h]
    /\ UNCHANGED <<sess, rd, nextH, gh, wsVars>>

\* Session s goes out of scope; nothing ties a Response to it.
DropInternet(s) ==
    /\ sess[s].st = "live"
    /\ closeCount' = Internet_drop(closeCount, sess[s].h)
    /\ sess' = [sess EXCEPT ![s].st = "dropped"]
    /\ ev' = [Ev("dropInternet", s, None) EXCEPT !.h = sess[s].h]
    /\ UNCHANGED <<resp, rd, net, nextH, gh, wsVars>>

Next ==
    \/ \E p \in BOOLEAN : Open(p)
    \/ \E s \in SessIds, hd \in BOOLEAN : Get(s, hd)
    \/ \E r \in RespIds : Status(r)
    \/ \E r \in RespIds : AsBytes(r)
    \/ \E r \in RespIds : BytesNext(r)
    \/ \E r \in RespIds : DropBytes(r)
    \/ \E r \in RespIds : DropResponse(r)
    \/ \E s \in SessIds : DropInternet(s)

Spec == Init /\ [][Next]_vars

(***************************************************************************)
(* One iterator drained: the state after open, get and as_bytes have       *)
(* succeeded, for every body, and then next called again and again.        *)
(***************************************************************************)
ReadInit ==
    /\ sess = [s \in SessIds |-> IF s = 1 THEN [st |-> "live", h |-> 1] ELSE NoSess]
    /\ resp = [r \in RespIds |-> IF r = 1 THEN [st |-> "live", h |-> 2, parent |-> 1] ELSE NoResp]
    /\ rd = [r \in RespIds |-> IF r = 1 THEN Bytes_new ELSE NoBytes]
    /\ \E body \in Bodies :
          net = [r \in RespIds |-> IF r = 1 THEN [body |-> body, pos |-> 0, code |-> 200] ELSE NoReq]
    /\ closeCount = [h \in Handles |-> 0]
    /\ nextH = 3
    /\ gh = NoHist
    /\ ev = Ev("as_bytes", 1, None)
    /\ wsIn = <<>>
    /\ wsOut = <<>>
    /\ wsDone = FALSE

\* Bytes::next, with the iterator's history recorded.
ReadStep(r) ==
    /\ rd[r].st = "live"
    /\ \E o \in NextOutcomes(r) :
          /\ NextCall(r, o)
          /\ gh' = Hist(gh, r, o)

ReadNext == \E r \in RespIds : ReadStep(r)

\* The caller keeps calling next.
ReadSpec == ReadInit /\ [][ReadNext]_vars /\ WF_vars(ReadNext)

(***************************************************************************)
(* The wide-string adapter applied to every text up to MaxStrLen.          *)
(***************************************************************************)
WideInit ==
    /\ sess = [s \in SessIds |-> NoSess]
    /\ resp = [r \in RespIds |-> NoResp]
    /\ rd = [r \in RespIds |-> NoBytes]
    /\ net = [r \in RespIds |-> NoReq]
    /\ closeCount = [h \in Handles |-> 0]
    /\ nextH = 1
    /\ gh = NoHist
    /\ ev = Ev("init", 0, None)
    /\ wsIn \in Strs
    /\ wsOut = <<>>
    /\ wsDone = FALSE

\* let w = WideString::from(s)
Convert ==
    /\ ~wsDone
    /\ wsOut' = WideStringFrom(wsIn)
    /\ wsDone' = TRUE
    /\ UNCHANGED <<sess, resp, rd, net, closeCount, nextH, gh, ev, wsIn>>

WideNext == Convert

WideSpec == WideInit /\ [][WideNext]_vars

(***************************************************************************)
(* Properties                                                              *)
(***************************************************************************)
\* The body read by the observed iterator, and the iterator.
ObsBody == net[1].body
ObsBytes == rd[1]

\* C1: while no read has failed, the items produced by one iterator up to
\* its first None are a prefix of the body, in order, and are the whole
\* body once None has been returned; a read that delivers 0 bytes is
\* answered with None, never with a byte.
C1_DrainYieldsBody ==
    ~gh.failed =>
        /\ Len(gh.out) <= Len(ObsBody)
        /\ gh.out = SubSeq(ObsBody, 1, Len(gh.out))
        /\ gh.noneSeen => gh.out = ObsBody
        /\ (ev.op = "next" /\ ev.refill /\ ev.n = 0) => ev.ret = None

\* C1 witness: a body of exactly two full chunks with differing bytes has
\* been drained to None without a failed read.
C1_Witness ==
    /\ ~gh.failed
    /\ gh.noneSeen
    /\ Len(ObsBody) = 2 * BUFFER_SIZE
    /\ ObsBody[1] # ObsBody[2]
    /\ gh.out = ObsBody

\* C2: once the iterator has returned None, and for as long as every read
\* since has reported success with 0 bytes, the buffer stays exhausted
\* (every call reads again) and every call returns None.
C2_NoneStaysNone ==
    gh.cleanEnd =>
        /\ NeedRefill(ObsBytes.index, ObsBytes.size)
        /\ ev.op = "next" => ev.ret = None

\* C2 witness: None has been returned at least twice in a row at the end of
\* a non-empty body.
C2_Witness ==
    /\ gh.cleanEnd
    /\ gh.nones = 2
    /\ ObsBody # <<>>
    /\ ev.ret = None

\* C3 (as claimed): whatever the platform reports, repeated next calls
\* eventually return None.
C3_EventuallyNone == <>(ev.op = "next" /\ ev.ret = None)

\* C4: InternetCloseHandle has been issued exactly once on the handle of
\* every wrapper that has ended its life, not at all on the handle of a
\* live wrapper, and on no other handle; no handle is closed twice.
C4_ClosedExactlyOnce ==
    /\ \A s \in SessIds :
          /\ sess[s].st = "live" => closeCount[sess[s].h] = 0
          /\ sess[s].st = "dropped" => closeCount[sess[s].h] = 1
    /\ \A r \in RespIds :
          /\ resp[r].st = "live" => closeCount[resp[r].h] = 0
          /\ resp[r].st = "dropped" => closeCount[resp[r].h] = 1
    /\ \A h \in Handles :
          /\ closeCount[h] <= 1
          /\ closeCount[h] = 1 =>
                \/ \E s \in SessIds : sess[s].st = "dropped" /\ sess[s].h = h
                \/ \E r \in RespIds : resp[r].st = "dropped" /\ resp[r].h = h

\* C4 witness: a Session and a Response obtained from it have both ended
\* their lives, each handle closed once.
C4_Witness ==
    \E s \in SessIds, r \in RespIds :
        /\ sess[s].st = "dropped"
        /\ resp[r].st = "dropped"
        /\ resp[r].parent = s
        /\ closeCount[sess[s].h] = 1
        /\ closeCount[resp[r].h] = 1
        /\ sess[s].h # resp[r].h

\* C5: open and get return None exactly when the platform returned the null
\* handle and otherwise a wrapper holding the returned handle; every
\* wrapper holds a non-null handle; no close is issued on the null handle.
C5_NoneIffNull ==
    /\ ev.op \in {"open", "get"} =>
          /\ (ev.ret = None) <=> (ev.h = NULL)
          /\ ev.ret # None => ev.ret = Some(ev.h)
          /\ (ev.op = "open" /\ ev.ret # None) =>
                sess[ev.id].st = "live" /\ sess[ev.id].h = ev.h
          /\ (ev.op = "get" /\ ev.ret # None) =>
                resp[ev.id].st = "live" /\ resp[ev.id].h = ev.h
    /\ \A s \in SessIds : sess[s].st # "unborn" => sess[s].h # NULL
    /\ \A r \in RespIds : resp[r].st # "unborn" => resp[r].h # NULL
    /\ closeCount[NULL] = 0

\* C5 witness: get has returned None on a null handle, on a live session
\* that open built from a non-null handle.
C5_Witness ==
    /\ ev.op = "get"
    /\ ev.h = NULL
    /\ ev.ret = None
    /\ \E s \in SessIds : sess[s].st = "live" /\ sess[s].h # NULL

\* Number of UTF-16 code units of a text, counted from its scalar values.
RECURSIVE Utf16Len(_)
Utf16Len(s) ==
    IF s = <<>> THEN 0
    ELSE (IF Head(s) >= 65536 THEN 2 ELSE 1) + Utf16Len(Tail(s))

\* C6 (as claimed): the output ends with exactly one zero code unit and
\* without its last unit decodes to the input.
C6_ExactlyOneTrailingZero ==
    wsDone =>
        /\ TrailingZeros(wsOut) = 1
        /\ Utf16Decode(Front(wsOut)) = wsIn

\* C6 (amended): the output is the UTF-16 encoding of the input followed by
\* one zero code unit: it is one unit longer than the encoding, its last
\* unit is zero, without it it decodes to the input, and it ends with one
\* zero more than the input ends with NUL characters.
C6_OneTerminatorAppended ==
    wsDone =>
        /\ Len(wsOut) = Utf16Len(wsIn) + 1
        /\ wsOut[Len(wsOut)] = 0
        /\ Utf16Decode(Front(wsOut)) = wsIn
        /\ TrailingZeros(wsOut) = TrailingZeros(wsIn) + 1

\* C6 witness: a text of a supplementary character and a final NUL has been
\* converted to a surrogate pair and two zero units.
C6_Witness ==
    /\ wsDone
    /\ Len(wsIn) = 2
    /\ wsIn[1] >= 65536
    /\ wsIn[2] = 0
    /\ Len(wsOut) = 4
    /\ TrailingZeros(wsOut) = 2

\* C7: a status call returns the request's status code when the query
\* succeeds and 0 when it fails, and changes neither the wrappers, nor the
\* iterator, nor the platform's state of the request, nor the close calls.
C7_StatusOrZero ==
    [][ev'.op = "status" =>
          /\ ev'.ret = Some(IF ev'.result # 0 THEN net[ev'.id].code ELSE 0)
          /\ sess' = sess
          /\ resp' = resp
          /\ rd' = rd
          /\ net' = net
          /\ closeCount' = closeCount]_vars

\* C7 witness: status has returned 200 on a successful query while an
\* iterator of the same Response was in the middle of a chunk.
C7_Witness ==
    /\ ev.op = "status"
    /\ ev.result # 0
    /\ ev.ret = Some(200)
    /\ rd[ev.id].st = "live"
    /\ rd[ev.id].index > 0
    /\ rd[ev.id].index < rd[ev.id].size

\* C8: a next call whose read fails with 0 bytes returns Some of the byte
\* at buffer position 0 (the first byte of the last chunk delivered, or 0
\* if none was), leaves size 0, and leaves the buffer exhausted so that
\* the following call reads again.
C8_FailedReadYieldsStaleByte ==
    (ev.op = "next" /\ ev.refill /\ ev.result = 0 /\ ev.n = 0) =>
        /\ ev.ret = Some(gh.first0)
        /\ ev.ret = Some(ObsBytes.data[0])
        /\ ObsBytes.size = 0
        /\ NeedRefill(ObsBytes.index, ObsBytes.size)

\* C8 witness: a failed read has made next return the leftover first byte
\* of an earlier chunk.
C8_Witness ==
    /\ ev.op = "next"
    /\ ev.refill
    /\ ev.result = 0
    /\ gh.first0 = 7
    /\ ev.ret = Some(7)
    /\ ObsBytes.size = 0

\* C9 (as claimed): every status call, read and close on a Response's
\* handle happens while the Session it was obtained from is not yet closed.
C9_ResponseWithinSession ==
    (ev.op \in {"status", "dropResponse"} \/ (ev.op = "next" /\ ev.refill)) =>
        sess[resp[ev.id].parent].st = "live"

\* C10 (as claimed): every buffer whose pointer is handed to InternetOpenW
\* or InternetOpenUrlW is still allocated when the call is made.
C10_BuffersAliveAtCall ==
    ev.op \in {"open", "get"} => ev.dangling = {}
=============================================================================
